---- MODULE Spec2Model ----
(***************************************************************************)
(* A model of the MinXSS / INSPIRE beacon packet parser,                   *)
(* src/minxss_parser.py (class Minxss_Parser).                             *)
(*                                                                         *)
(* Conventions.                                                            *)
(*  - A bytearray is a TLA+ sequence of integers in 0..255.  Python        *)
(*    indices are 0-based; Idx(s, i) reads Python's s[i].                  *)
(*  - A call of a Python function is a record [ok, exc, val, logs]: either *)
(*    a normal return of val, or an exception of class exc; logs are the   *)
(*    records it hands to self.log.                                        *)
(*  - A Python value is a record [t, hi, lo, b]: t is the type, b the      *)
(*    bytes of a bytearray, and hi, lo the number hi * 2^16 + lo           *)
(*    (0 <= lo < 2^16), so that 32-bit and 64-bit quantities keep their    *)
(*    width.  A float temperature is kept in tenths of a degree.           *)
(*  - Python 3 (/ is true division) and numpy 1.x, the numpy of this code: *)
(*    a numpy scalar combined with a Python int is computed in int64, and  *)
(*    a conversion to a narrower type keeps the low bits.                  *)
(***************************************************************************)
EXTENDS Integers, Sequences, FiniteSets, TLC

(***************************************************************************)
(* Bounds of the model.                                                    *)
(***************************************************************************)
\* Buffers over SmallBytes are enumerated up to this length.
MaxSmallLen == 4
\* Frames cut from the example packet have up to this many bytes from the marker on.
MaxFrameLen == 167
\* Bytes before the marker in a cut frame: 0 .. MaxPrefix.
MaxPrefix == 1
\* The first temperature byte of a cut frame ranges over 0 .. MaxTempByte.
MaxTempByte == 3
\* The log sink keeps at most this many records.
MaxLog == 1
\* Byte values 0 .. MaxLowByte and 255 - MaxLowByte .. 255 feed the decoders.
MaxLowByte == 1

(***************************************************************************)
(* The state: the invocations of parsePacket (one frame of locals each),   *)
(* the log sink all of them share (self.log), and the call of a single     *)
(* method made from outside parsePacket.                                   *)
(***************************************************************************)
VARIABLES
    pc,                           \* per invocation: "idle", "sync", "fields", "done"
    arg,                          \* the caller's buffer, as handed to parsePacket
    inspirePacket,                \* the local inspirePacket
    field,                        \* the field-table entry to decode next (1-based)
    selectedTelemetryDictionary,  \* the dictionary under construction, in insertion order
    outcome,                      \* how the invocation ended
    log,                          \* the levels of the records handed to self.log
    memo,                         \* an earlier invocation, as the caller remembers it
    call                          \* the last direct call of a method: [op, arg, flag, res]

vars == <<pc, arg, inspirePacket, field, selectedTelemetryDictionary, outcome, log, memo, call>>

(***************************************************************************)
(* Python values and call results.                                         *)
(***************************************************************************)
NotFound == -1

Val(t, hi, lo, b) == [t |-> t, hi |-> hi, lo |-> lo, b |-> b]
NoneV == Val("None", 0, 0, <<>>)
IntV(n) == Val("int", 0, n, <<>>)
FloatV(deci) == Val("float", 0, deci, <<>>)
BytesV(s) == Val("bytearray", 0, 0, s)

Ret(v) == [ok |-> TRUE, exc |-> "", val |-> v, logs |-> <<>>]
RetLog(v, l) == [ok |-> TRUE, exc |-> "", val |-> v, logs |-> l]
Raise(e) == [ok |-> FALSE, exc |-> e, val |-> NoneV, logs |-> <<>>]

Min(a, b) == IF a < b THEN a ELSE b

\* Python's s[i], 0 <= i < len(s).
Idx(s, i) == s[i + 1]
\* Python's s[a:b] for 0 <= a <= b: never an error, short when s is short.
Slice(s, a, b) == SubSeq(s, a + 1, Min(b, Len(s)))

(***************************************************************************)
(* Integer arithmetic of numpy scalars, in int64 kept as hi * 2^16 + lo.   *)
(***************************************************************************)
RECURSIVE Pow2(_)
Pow2(k) == IF k = 0 THEN 1 ELSE 2 * Pow2(k - 1)

\* Python's a | b on integers of any sign (two's complement, unbounded).
RECURSIVE BitOr(_, _)
BitOr(a, b) ==
    IF a = 0 THEN b
    ELSE IF b = 0 THEN a
    ELSE IF a = -1 \/ b = -1 THEN -1
    ELSE 2 * BitOr(a \div 2, b \div 2) + (IF a % 2 = 1 \/ b % 2 = 1 THEN 1 ELSE 0)

W(n) == [hi |-> n \div 65536, lo |-> n % 65536]
OrW(x, y) == [hi |-> BitOr(x.hi, y.hi), lo |-> BitOr(x.lo, y.lo)]
ShlW(x, k) ==
    IF k >= 16
    THEN [hi |-> x.hi * Pow2(k) + x.lo * Pow2(k - 16), lo |-> 0]
    ELSE [hi |-> x.hi * Pow2(k) + ((x.lo * Pow2(k)) \div 65536),
          lo |-> (x.lo * Pow2(k)) % 65536]

\* numpy.uint8(n), numpy.int8(n) of a Python int n: the low 8 bits.
uint8(n) == W(n % 256)
int8(n) == W(IF n % 256 >= 128 THEN (n % 256) - 256 ELSE n % 256)
\* numpy.uint16(x) ... numpy.int32(x) of an int64 scalar x: the low bits.
uint16(x) == Val("uint16", 0, x.lo, <<>>)
int16(x) == Val("int16", 0, IF x.lo >= 32768 THEN x.lo - 65536 ELSE x.lo, <<>>)
uint32(x) == Val("uint32", x.hi % 65536, x.lo, <<>>)
int32(x) ==
    Val("int32", IF x.hi % 65536 >= 32768 THEN (x.hi % 65536) - 65536 ELSE x.hi % 65536,
        x.lo, <<>>)

(***************************************************************************)
(* Minxss_Parser.findSyncStartIndex, findSyncStopIndex: bytearray.find.    *)
(***************************************************************************)
StartSyncBytes == <<8, 25>>
StopSyncBytes == <<165, 165>>

\* Whether sub occurs in s at Python index i.
MatchAt(s, sub, i) ==
    /\ i + Len(sub) <= Len(s)
    /\ \A j \in 1..Len(sub) : s[i + j] = sub[j]

\* bytearray.find(sub, i): the lowest index from i on at which sub occurs, -1 if none.
FindFrom(s, sub, i) ==
    LET found == {j \in i..(Len(s) - Len(sub)) : MatchAt(s, sub, j)}
    IN  IF found = {} THEN NotFound
        ELSE CHOOSE j \in found : \A k \in found : j <= k

\* A search that starts one byte late.
FindSkippingFirst(minxssSerialData) == FindFrom(minxssSerialData, StartSyncBytes, 1)

\* A search that resumes after as many bytes as the log sink holds records.
FindResuming(minxssSerialData) == FindFrom(minxssSerialData, StartSyncBytes, Len(log))

\* A search for the first sync byte alone.
FindFirstByteOnly(minxssSerialData) == FindFrom(minxssSerialData, <<8>>, 0)

findSyncStartIndex(minxssSerialData) == FindFrom(minxssSerialData, StartSyncBytes, 0)

findSyncStopIndex(minxssSerialData) == FindFrom(minxssSerialData, StopSyncBytes, 0)

(***************************************************************************)
(* Minxss_Parser.decodeBytes.                                              *)
(***************************************************************************)
\* The 2-byte branch without the outer uint16: the sign of int8 stays in the result.
decodeBytes2SignLeak(b, returnUnsignedInt) ==
    IF returnUnsignedInt
    THEN int16(OrW(ShlW(int8(Idx(b, 1)), 8), uint8(Idx(b, 0))))
    ELSE int16(OrW(ShlW(uint8(Idx(b, 1)), 8), uint8(Idx(b, 0))))

\* The 2-byte branch with the high byte masked to 7 bits in the signed case.
decodeBytes2NoSign(b, returnUnsignedInt) ==
    IF returnUnsignedInt
    THEN uint16(OrW(ShlW(int8(Idx(b, 1)), 8), uint8(Idx(b, 0))))
    ELSE int16(OrW(ShlW(uint8(Idx(b, 1) % 128), 8), uint8(Idx(b, 0))))

decodeBytes2(b, returnUnsignedInt) ==
    IF returnUnsignedInt
    THEN uint16(OrW(ShlW(int8(Idx(b, 1)), 8), uint8(Idx(b, 0))))
    ELSE int16(OrW(ShlW(uint8(Idx(b, 1)), 8), uint8(Idx(b, 0))))

\* The operand of the 4-byte branch: only byte 3 is shifted as a numpy scalar;
\* bytes 2, 1 and 0 are shifted as Python ints and then cut to uint8.
decodeBytes4Operand(b) ==
    OrW(OrW(OrW(ShlW(uint8(Idx(b, 3)), 24),
                uint8(Idx(b, 2) * Pow2(16))),
            uint8(Idx(b, 1) * Pow2(8))),
        uint8(Idx(b, 0) * Pow2(0)))

decodeBytes4(b, returnUnsignedInt) ==
    IF returnUnsignedInt
    THEN uint32(decodeBytes4Operand(b))
    ELSE int32(decodeBytes4Operand(b))

\* An else branch that raises instead of logging.
decodeBytesOtherRaises(b) == Raise("ValueError")

\* The else branch: a debug record, and the function ends without a return.
decodeBytesOther(b) == RetLog(NoneV, <<"debug">>)

decodeBytes(bytearrayTemp, returnUnsignedInt) ==
    IF Len(bytearrayTemp) = 1 THEN Ret(BytesV(bytearrayTemp))
    ELSE IF Len(bytearrayTemp) = 2 THEN Ret(decodeBytes2(bytearrayTemp, returnUnsignedInt))
    ELSE IF Len(bytearrayTemp) = 4 THEN Ret(decodeBytes4(bytearrayTemp, returnUnsignedInt))
    ELSE decodeBytesOther(bytearrayTemp)

(***************************************************************************)
(* Minxss_Parser.TempCalc.  The float arithmetic is kept exact where the   *)
(* outcome depends on it: 3.3 - V is (33 - 10 V) / 10, and the resistance  *)
(* R is the fraction RNum / RDen.  math.log is tabulated, in hundredths,   *)
(* at the only positive resistances a sum of two bytes gives (V = 1, 2,    *)
(* 3: R = 1, 46/13, 23); the temperature is kept in tenths of a degree.    *)
(***************************************************************************)
LogCenti(num, den) ==
    CASE num = den -> 0
      [] 13 * num = 46 * den -> 126
      [] num = 23 * den -> 314

\* math.log(R) raises ValueError ("math domain error") unless R > 0.
LogDefined(num, den) == (num > 0 /\ den > 0) \/ (num < 0 /\ den < 0)

TempOfResistance(RNum, RDen) ==
    LET lnR == LogCenti(RNum, RDen)
        \* Tinv + math.log(R) / B = (343000 + 298 lnR) / (298 * 343000)
        TinvPlus == 343000 + 298 * lnR
    IN  IF TinvPlus = 0 THEN Raise("ZeroDivisionError")
        ELSE Ret(FloatV(((10 * 298 * 343000) \div TinvPlus) - 2730))

\* A converter that returns 0.0 where the logarithm is undefined.
TempCalcNoDomainError(bytearrayTemp) ==
    IF Len(bytearrayTemp) < 2 THEN Raise("IndexError")
    ELSE LET Voltage_thermistor == Idx(bytearrayTemp, 0) + Idx(bytearrayTemp, 1)
             Divisor10 == 33 - 10 * Voltage_thermistor
             RNum == Voltage_thermistor * 10 * 23 * 1000
             RDen == Divisor10 * 10000
         IN  IF Divisor10 = 0 \/ ~LogDefined(RNum, RDen) THEN Ret(FloatV(0))
             ELSE TempOfResistance(RNum, RDen)

TempCalc(bytearrayTemp) ==
    IF Len(bytearrayTemp) < 2 THEN Raise("IndexError")
    ELSE LET Voltage_thermistor == Idx(bytearrayTemp, 0) + Idx(bytearrayTemp, 1)
             Divisor10 == 33 - 10 * Voltage_thermistor
             RNum == Voltage_thermistor * 10 * 23 * 1000
             RDen == Divisor10 * 10000
         IN  IF Divisor10 = 0 THEN Raise("ZeroDivisionError")
             ELSE IF ~LogDefined(RNum, RDen) THEN Raise("ValueError")
             ELSE TempOfResistance(RNum, RDen)

(***************************************************************************)
(* Minxss_Parser.BatteryVoltage: the sum of two bytes is an int, and       *)
(* int(x, 16) of an int raises TypeError before decodeBytes is reached.    *)
(***************************************************************************)
BatteryVoltage(bytearrayTemp) ==
    IF Len(bytearrayTemp) < 2 THEN Raise("IndexError")
    ELSE LET temp_hexdata == IntV(Idx(bytearrayTemp, 0) + Idx(bytearrayTemp, 1))
         IN  IF temp_hexdata.t = "int" THEN Raise("TypeError")
             ELSE decodeBytes(bytearrayTemp, FALSE)

(***************************************************************************)
(* The field table of parsePacket: each assignment of lines 38-152, with   *)
(* the slice inspirePacket[lo:hi] it reads and the body of its decoder.    *)
(***************************************************************************)
Field(name, lo, hi, conv) == [name |-> name, lo |-> lo, hi |-> hi, conv |-> conv]

FieldTable ==
    << Field("Time Stamp", 0, 5, "None"),
       Field("Commands Received", 5, 9, "None"),
       Field("Last Command Received", 9, 11, "None"),
       Field("Temperature", 11, 13, "TempCalc"),
       Field("C&DH Primary Data", 13, 14, "None"),
       Field("Rejected CIP Packets", 14, 18, "None"),
       Field("Last Downlinked HK Sector", 18, 22, "None"),
       Field("Last downlinked Science Sector", 22, 26, "None"),
       Field("Last downlinked ADCS Sector", 26, 30, "None"),
       Field("Battery Voltage", 29, 31, "BatteryVoltage"),
       Field("Battery Current", 31, 33, "None"),
       Field("Battery SOC", 33, 35, "None"),
       Field("Battery Temperature", 35, 43, "TempCalc"),
       Field("Solar Panel Voltage", 43, 49, "None"),
       Field("Solar Panel Current", 49, 54, "None"),
       Field("Interface Board Temperature", 54, 56, "TempCalc"),
       Field("EPS Board Temperature", 56, 58, "TempCalc"),
       Field("CIP Voltage", 58, 60, "One"),
       Field("CIP Current", 60, 62, "One"),
       Field("ADCS Voltage", 62, 64, "One"),
       Field("ADCS Current", 64, 66, "One"),
       Field("S-Band Voltage", 66, 68, "One"),
       Field("S-Band Current", 68, 70, "One"),
       Field("UHF Voltage", 70, 72, "One"),
       Field("UHF Current", 72, 74, "One"),
       Field("C&DH Voltage", 74, 76, "One"),
       Field("C&DH Current", 76, 78, "One"),
       Field("GPS 3.3 Voltage", 78, 80, "One"),
       Field("GPS 3.3 Current", 80, 82, "One"),
       Field("GPS 12 Voltage", 82, 88, "One"),
       Field("GPS 12 Current", 88, 94, "One"),
       Field("Battery Heater Current", 94, 96, "One"),
       Field("General Information", 96, 100, "One"),
       Field("CIP Temperature", 100, 106, "One"),
       Field("System Check Temperature", 106, 108, "One"),
       Field("System Check Current Channel", 108, 109, "One"),
       Field("Shell Temperature", 109, 111, "One"),
       Field("Check Sum Counter", 111, 113, "One"),
       Field("Configuration Status", 113, 114, "One"),
       Field("SBandByte", 114, 115, "One"),
       Field("Command Status", 115, 116, "One"),
       Field("Command Reject Count", 116, 117, "One"),
       Field("Command Accept Count", 117, 118, "One"),
       Field("Time Valid", 118, 119, "One"),
       Field("Time Now", 119, 123, "One"),
       Field("Refs Valid", 123, 124, "One"),
       Field("Attitude Valid", 123, 124, "One"),
       Field("ADCS Mode", 124, 125, "One"),
       Field("Recommend Sun Point", 125, 126, "One"),
       Field("Sun Point State", 126, 127, "One"),
       Field("Star Tracker Temperature", 127, 128, "One"),
       Field("Wheel Temperatures", 128, 134, "One"),
       Field("Digital Bus Voltage", 134, 136, "One"),
       Field("Sun Vector", 136, 142, "One"),
       Field("Wheel Est Drag", 142, 148, "One"),
       Field("Wheel Measured Speed", 148, 154, "One"),
       Field("Body Frame Rate", 154, 166, "One") >>

NFields == Len(FieldTable)

\* The decoder methods, by their bodies: "return", TempCalc, BatteryVoltage, "return 1".
Decode(conv, bytearrayTemp) ==
    CASE conv = "None" -> Ret(NoneV)
      [] conv = "TempCalc" -> TempCalc(bytearrayTemp)
      [] conv = "BatteryVoltage" -> BatteryVoltage(bytearrayTemp)
      [] conv = "One" -> Ret(IntV(1))

(***************************************************************************)
(* The example packet of the __main__ block.                               *)
(***************************************************************************)
exampleData ==
    << 192,   0, 154, 146,   0, 176, 166, 100,  96, 134,
       162,  64,  64,  64,  64, 225,   3, 240,   8,  25,
       193, 111,   0, 247, 241,  52, 214,  69,  71,   2,
        10, 134,  75,   0,  12,   0,   1,   0,  46, 116,
         1,   3,  48,   3,   0,   3, 121,   0,   0,   1,
       250, 199,  16,   1,   3,   0,   0,   1,  90, 128,
         4,   1,   0,   0,   0, 146,   0,   0,   0,  33,
         0,   0,   0,   1,   0,   0,   0,   8,   0,   0,
         0,   1,   0,   0,   0, 128,   0,   0,  95,   0,
        71,  19,   0,   0,  10, 128, 246,   1, 226,   3,
       211,  11,   6,   8, 144,  24,   5,   4,   0,   0,
         0,   0,   0,   0,   0,   0,   0,   0,   1,   0,
         0,   0, 142,   1,  19,   0, 109,   0,   0, 100,
       136,   1,   0,   0, 172,  37,   1,   0,   7,  11,
        32,  23,  64,  21, 144,  21, 128,  23,  64,  24,
       224, 206,  88,  97,   8,   0, 120,   7,   8,   0,
       128,   6,   8,   0,  48,   6,  24,   0,  80,  32,
        48,   1, 144,  13,  24,   0, 120,  19,  77,   5,
        68,   5,  81,   5,   9,   8,  20,   0, 158,   5,
       108,   0, 160,   5, 243,   1,  92,   0,  79,   2,
        82,   2,  83,   1,  83,   1,  51,   1,   0,   0,
         8,   1,   0,   0, 126,   0,   0,   0, 205,   0,
         0,   0,   0,   0,   0,   0,   0,   0,   0,   0,
         0,   0, 199,  47,  32,  18, 216,   0,   0,   0,
         5,   7,   2,   0,   0,   0,  39,   6,   0,   0,
         9,   6,   0,   0,   0,   0,   0,   0, 252, 255,
       253, 255,   7,   0,   7,  73,   0,   0, 229, 249,
       165, 165, 192 >>

(***************************************************************************)
(* The invocations and how they end.                                       *)
(***************************************************************************)
Procs == {1, 2}
\* The invocations a sequential caller makes.
SeqProcs == {1}

Pending == [kind |-> "pending", exc |-> "", at |-> "", rec |-> <<>>]
\* "return -1"
FrameNotFound == [kind |-> "FrameNotFound", exc |-> "", at |-> "", rec |-> <<>>]
Raised(e, at) == [kind |-> "raise", exc |-> e, at |-> at, rec |-> <<>>]
Returned(d) == [kind |-> "record", exc |-> "", at |-> "", rec |-> d]

NoMemo == [set |-> FALSE, arg |-> <<>>, outcome |-> Pending, log |-> <<>>]
NoCall == [op |-> "", arg |-> <<>>, flag |-> FALSE, res |-> Ret(NoneV)]

\* The sink keeps the first MaxLog records.
LogAppend(l, recs) == SubSeq(l \o recs, 1, Min(Len(l \o recs), MaxLog))

(***************************************************************************)
(* The buffers handed to parsePacket.                                      *)
(***************************************************************************)
SmallBytes == {0, 8, 25, 165}
SeqsUpTo(S, n) == UNION {[1..k -> S] : k \in 0..n}
SmallBufs == SeqsUpTo(SmallBytes, MaxSmallLen)

\* The example packet from its start marker on.
exampleFrame == Slice(exampleData, 18, Len(exampleData))
\* The frame with its two temperature bytes (Python indices 11, 12) replaced.
WithTemp(s, t0, t1) == [s EXCEPT ![12] = t0, ![13] = t1]
\* Temperature bytes: the sums 0 .. MaxTempByte, the example's own 2 + 10, and 510.
TempPairs == {<<t0, 0>> : t0 \in 0..MaxTempByte} \cup {<<2, 10>>, <<255, 255>>}
\* k bytes of the example's lead-in, then the first n bytes of the frame.
CutFrames ==
    {SubSeq(exampleData, 1, k) \o SubSeq(WithTemp(exampleFrame, t[1], t[2]), 1, n) :
        k \in 0..MaxPrefix, n \in 2..MaxFrameLen, t \in TempPairs}

Inputs == SmallBufs \cup CutFrames \cup {exampleData}

(***************************************************************************)
(* parsePacket, line by line.                                              *)
(***************************************************************************)
\* The call: the parameter inspirePacket is bound to the caller's buffer.
Enter(p, buf) ==
    /\ pc' = [pc EXCEPT ![p] = "sync"]
    /\ arg' = [arg EXCEPT ![p] = buf]
    /\ inspirePacket' = [inspirePacket EXCEPT ![p] = buf]
    /\ field' = [field EXCEPT ![p] = 0]
    /\ selectedTelemetryDictionary' = [selectedTelemetryDictionary EXCEPT ![p] = <<>>]
    /\ outcome' = [outcome EXCEPT ![p] = Pending]
    /\ UNCHANGED <<log, memo, call>>

\* A caller calls when its invocation slot is free and no direct call is open.
CanEnter(p) == pc[p] = "idle" /\ call = NoCall

Call(p) ==
    /\ CanEnter(p)
    /\ \E buf \in Inputs : Enter(p, buf)

\* A reframing that ends the packet where findSyncStopIndex finds the stop marker.
ReframeToStop(packet, syncOffset) ==
    IF findSyncStopIndex(packet) = NotFound
    THEN Slice(packet, syncOffset, Len(packet))
    ELSE Slice(packet, syncOffset, findSyncStopIndex(packet))

\* inspirePacket[syncOffset:len(inspirePacket)]
Reframe(packet, syncOffset) == Slice(packet, syncOffset, Len(packet))

\* Lines 24-32: find the start marker; return -1, or reframe and make the dictionary.
FindSync(p) ==
    /\ pc[p] = "sync"
    /\ LET syncOffset == findSyncStartIndex(inspirePacket[p])
       IN  IF syncOffset = NotFound
           THEN /\ log' = LogAppend(log, <<"error">>)
                /\ outcome' = [outcome EXCEPT ![p] = FrameNotFound]
                /\ pc' = [pc EXCEPT ![p] = "done"]
                /\ UNCHANGED <<inspirePacket, field, selectedTelemetryDictionary>>
           ELSE /\ inspirePacket' = [inspirePacket EXCEPT ![p] = Reframe(@, syncOffset)]
                /\ selectedTelemetryDictionary' =
                       [selectedTelemetryDictionary EXCEPT ![p] = <<>>]
                /\ field' = [field EXCEPT ![p] = 1]
                /\ pc' = [pc EXCEPT ![p] = "fields"]
                /\ UNCHANGED <<log, outcome>>
    /\ UNCHANGED <<arg, memo, call>>

\* A parser that skips a field whose bytes are missing.
DecodeOfLenient(f, packet) ==
    IF Len(packet) < f.hi THEN Ret(NoneV) ELSE Decode(f.conv, Slice(packet, f.lo, f.hi))

\* A parser that keeps the packet in an attribute of the object, where the
\* invocations share it: every decoder reads the first invocation's packet.
DecodeOfShared(f, packet) == Decode(f.conv, Slice(inspirePacket[1], f.lo, f.hi))

\* The call of one field's decoder on its slice of the reframed packet.
DecodeOf(f, packet) == Decode(f.conv, Slice(packet, f.lo, f.hi))

\* One assignment of lines 38-152; after the last one, lines 154-156: two info
\* records and the return of the dictionary.  An exception of the decoder ends
\* the invocation and reaches the caller.
DecodeField(p) ==
    /\ pc[p] = "fields"
    /\ LET f == FieldTable[field[p]]
           r == DecodeOf(f, inspirePacket[p])
           d == Append(selectedTelemetryDictionary[p], [k |-> f.name, v |-> r.val])
       IN  IF ~r.ok
           THEN /\ outcome' = [outcome EXCEPT ![p] = Raised(r.exc, f.name)]
                /\ pc' = [pc EXCEPT ![p] = "done"]
                /\ log' = LogAppend(log, r.logs)
                /\ UNCHANGED <<field, selectedTelemetryDictionary>>
           ELSE /\ selectedTelemetryDictionary' = [selectedTelemetryDictionary EXCEPT ![p] = d]
                /\ IF field[p] = NFields
                   THEN /\ log' = LogAppend(log, r.logs \o <<"info", "info">>)
                        /\ outcome' = [outcome EXCEPT ![p] = Returned(d)]
                        /\ pc' = [pc EXCEPT ![p] = "done"]
                        /\ UNCHANGED field
                   ELSE /\ log' = LogAppend(log, r.logs)
                        /\ field' = [field EXCEPT ![p] = @ + 1]
                        /\ UNCHANGED <<pc, outcome>>
    /\ UNCHANGED <<arg, inspirePacket, memo, call>>

\* The caller is done with the outcome; the frame is gone.
Release(p) ==
    /\ pc[p] = "done"
    /\ pc' = [pc EXCEPT ![p] = "idle"]
    /\ arg' = [arg EXCEPT ![p] = <<>>]
    /\ inspirePacket' = [inspirePacket EXCEPT ![p] = <<>>]
    /\ field' = [field EXCEPT ![p] = 0]
    /\ selectedTelemetryDictionary' = [selectedTelemetryDictionary EXCEPT ![p] = <<>>]
    /\ outcome' = [outcome EXCEPT ![p] = Pending]
    /\ UNCHANGED <<log, memo, call>>

(***************************************************************************)
(* Direct calls of the parser's methods, as a test or another module makes *)
(* them: one call at a time, while no parsePacket is in progress.          *)
(***************************************************************************)
DecodeByteSet == (0..MaxLowByte) \cup ((255 - MaxLowByte)..255) \cup {127, 128}
\* Every sequence of up to four such bytes, and every field slice of the example frame.
DecodeInputs ==
    SeqsUpTo(DecodeByteSet, 4)
        \cup {Slice(exampleFrame, FieldTable[i].lo, FieldTable[i].hi) : i \in 1..NFields}
        \cup {<<lo, hi>> : lo \in DecodeByteSet, hi \in 0..255}
        \cup {<<lo, hi>> : lo \in 0..255, hi \in DecodeByteSet}
TempInputs ==
    {<<b0, b1>> : b0 \in 0..255, b1 \in (0..MaxTempByte) \cup {255}}
        \cup SeqsUpTo({0, 1}, 1)
FindInputs == SmallBufs \cup {exampleData, exampleFrame}
FindStopInputs == SmallBufs \cup {exampleData, exampleFrame}

CanCall == call = NoCall /\ \A p \in Procs : pc[p] = "idle"

Called(op, a, flag, res) ==
    /\ call' = [op |-> op, arg |-> a, flag |-> flag, res |-> res]
    /\ log' = LogAppend(log, res.logs)
    /\ UNCHANGED <<pc, arg, inspirePacket, field, selectedTelemetryDictionary, outcome, memo>>

CallFindSyncStartIndex ==
    /\ CanCall
    /\ \E s \in FindInputs :
           Called("findSyncStartIndex", s, FALSE, Ret(IntV(findSyncStartIndex(s))))

CallFindSyncStopIndex ==
    /\ CanCall
    /\ \E s \in FindStopInputs :
           Called("findSyncStopIndex", s, FALSE, Ret(IntV(findSyncStopIndex(s))))

CallDecodeBytes ==
    /\ CanCall
    /\ \E s \in DecodeInputs :
           \E returnUnsignedInt \in BOOLEAN :
              Called("decodeBytes", s, returnUnsignedInt, decodeBytes(s, returnUnsignedInt))

CallTempCalc ==
    /\ CanCall
    /\ \E s \in TempInputs : Called("TempCalc", s, FALSE, TempCalc(s))

\* The caller is done with the result of the call.
EndCall ==
    /\ call # NoCall
    /\ call' = NoCall
    /\ UNCHANGED <<pc, arg, inspirePacket, field, selectedTelemetryDictionary, outcome, log, memo>>

Init ==
    /\ pc = [p \in Procs |-> "idle"]
    /\ arg = [p \in Procs |-> <<>>]
    /\ inspirePacket = [p \in Procs |-> <<>>]
    /\ field = [p \in Procs |-> 0]
    /\ selectedTelemetryDictionary = [p \in Procs |-> <<>>]
    /\ outcome = [p \in Procs |-> Pending]
    /\ log = <<>>
    /\ memo = NoMemo
    /\ call = NoCall

Step(p) ==
    \/ FindSync(p)
    \/ DecodeField(p)
    \/ Release(p)

Next ==
    \/ \E p \in SeqProcs : Call(p) \/ Step(p)
    \/ CallFindSyncStartIndex
    \/ CallFindSyncStopIndex
    \/ CallDecodeBytes
    \/ CallTempCalc
    \/ EndCall

\* A caller that feeds buffers to parsePacket, one invocation after another, and
\* calls the other methods directly in between.
Spec == Init /\ [][Next]_vars

(***************************************************************************)
(* A caller that remembers one finished invocation and goes on calling.    *)
(***************************************************************************)
HistSmall == SeqsUpTo(SmallBytes, 2)
HistLens == {2, 12, 13, 30, 31, 166, MaxFrameLen}
HistInputs ==
    HistSmall \cup {exampleData}
        \cup {SubSeq(WithTemp(exampleFrame, t[1], t[2]), 1, n) : n \in HistLens, t \in TempPairs}

CallHist(p) ==
    /\ CanEnter(p)
    /\ \E buf \in HistInputs : Enter(p, buf)

Remember(p) ==
    /\ pc[p] = "done"
    /\ ~memo.set
    /\ memo' = [set |-> TRUE, arg |-> arg[p], outcome |-> outcome[p], log |-> log]
    /\ UNCHANGED <<pc, arg, inspirePacket, field, selectedTelemetryDictionary, outcome, log, call>>

NextHist == \E p \in SeqProcs : CallHist(p) \/ Step(p) \/ Remember(p)

SpecHist == Init /\ [][NextHist]_vars

(***************************************************************************)
(* A caller that remembers one finished invocation and goes on calling,    *)
(* with buffers that have bytes before the start marker, the same buffers  *)
(* without those bytes, and stop markers 0xA5 0xA5 before and inside the   *)
(* frame.                                                                  *)
(***************************************************************************)
\* Bytes before the start marker: none, a stop marker, the example's own 18 bytes.
LeadIns == {<<>>, StopSyncBytes, SubSeq(exampleData, 1, 18)}
ReframeLens == {12, 13, 31, MaxFrameLen}
ReframeTemps == {<<1, 0>>, <<2, 10>>}
\* Python indices in the frame, between 'Temperature' and 'Battery Voltage'.
StopPlaces == {14, 20}
\* s with the stop marker at Python index i, when s is long enough to hold it there.
WithStop(s, i) ==
    IF i + 2 <= Len(s) THEN [s EXCEPT ![i + 1] = 165, ![i + 2] = 165] ELSE s
ReframeFrames ==
    LET plain == {SubSeq(WithTemp(exampleFrame, t[1], t[2]), 1, n) :
                      n \in ReframeLens, t \in ReframeTemps}
    IN  plain \cup {WithStop(f, i) : f \in plain, i \in StopPlaces}
ReframeInputs ==
    SeqsUpTo(SmallBytes, 3)
        \cup {l \o f : l \in LeadIns, f \in ReframeFrames}
        \cup {exampleData, exampleFrame}

CallReframe(p) ==
    /\ CanEnter(p)
    /\ \E buf \in ReframeInputs : Enter(p, buf)

NextReframe == \E p \in SeqProcs : CallReframe(p) \/ Step(p) \/ Remember(p)

SpecReframe == Init /\ [][NextReframe]_vars

(***************************************************************************)
(* Two callers, in two threads, that call parsePacket of one parser object *)
(* on different buffers; the steps of the two invocations interleave in    *)
(* any order.                                                              *)
(***************************************************************************)
ConcSmall == SeqsUpTo({8, 25, 165}, 2) \cup {<<0, 8, 25>>}
ConcLens == {12, 13, 31}
ConcTemps == {<<0, 0>>, <<1, 0>>}
ConcInputs ==
    ConcSmall \cup {exampleData}
        \cup {SubSeq(WithTemp(exampleFrame, t[1], t[2]), 1, n) : n \in ConcLens, t \in ConcTemps}

\* The buffers of the invocations in progress, other than p's.
BuffersInUse(p) == {arg[q] : q \in {r \in Procs \ {p} : pc[r] # "idle"}}

CallConc(p) ==
    /\ CanEnter(p)
    /\ \E buf \in ConcInputs \ BuffersInUse(p) : Enter(p, buf)

NextConc == \E p \in Procs : CallConc(p) \/ Step(p)

SpecConc == Init /\ [][NextConc]_vars

(***************************************************************************)
(* The properties.  They are stated on the bytes themselves, not through   *)
(* the operators above.                                                    *)
(***************************************************************************)
\* Whether the start marker 0x08 0x19 stands at Python index i of buf.
MarkerAt(buf, i) == i + 2 <= Len(buf) /\ buf[i + 1] = 8 /\ buf[i + 2] = 25
HasStartMarker(buf) == \E i \in 0..(Len(buf) - 2) : MarkerAt(buf, i)
FirstMarker(buf) ==
    CHOOSE i \in 0..(Len(buf) - 2) :
        MarkerAt(buf, i) /\ \A j \in 0..(i - 1) : ~MarkerAt(buf, j)
\* The bytes from the first marker to the end of the buffer.
ReframedLen(buf) == Len(buf) - FirstMarker(buf)
FrameByte(buf, i) == buf[FirstMarker(buf) + i + 1]

FieldNames == [i \in 1..NFields |-> FieldTable[i].name]
KeysOf(d) == [i \in 1..Len(d) |-> d[i].k]
ValueAt(d, key) == d[CHOOSE i \in 1..Len(d) : d[i].k = key].v
\* The bytes the field table needs after the marker.
FrameBytesNeeded == CHOOSE n \in 0..1000 :
    /\ \E i \in 1..NFields : FieldTable[i].hi = n
    /\ \A i \in 1..NFields : FieldTable[i].hi <= n

\* C1: parsePacket on the example packet (start marker at index 18) raises nothing and
\* returns a record whose keys are the field names of the table, 'Time Stamp' through
\* 'Body Frame Rate', with 'Temperature' the thermistor formula on bytes 11 and 12 of
\* the reframed buffer.
C1_ExamplePacketDecoded ==
    \A p \in Procs :
        (pc[p] = "done" /\ arg[p] = exampleData) =>
            /\ outcome[p].kind = "record"
            /\ KeysOf(outcome[p].rec) = FieldNames
            /\ TempCalc(<<FrameByte(exampleData, 11), FrameByte(exampleData, 12)>>).ok
            /\ ValueAt(outcome[p].rec, "Temperature") =
                   TempCalc(<<FrameByte(exampleData, 11), FrameByte(exampleData, 12)>>).val

\* C2: on a buffer that holds the start marker 0x08 0x19 nowhere, parsePacket ends with
\* FrameNotFound (return -1): it raises nothing, decodes no field, returns no record.
C2_NoMarkerFrameNotFound ==
    \A p \in Procs :
        (pc[p] # "idle" /\ ~HasStartMarker(arg[p])) =>
            /\ pc[p] # "fields"
            /\ field[p] = 0
            /\ selectedTelemetryDictionary[p] = <<>>
            /\ pc[p] = "done" => outcome[p] = FrameNotFound

\* A finished invocation on a buffer that holds both sync bytes, never as the marker.
C2_Witness ==
    /\ pc[1] = "done"
    /\ outcome[1] = FrameNotFound
    /\ ~HasStartMarker(arg[1])
    /\ \E i, j \in 1..Len(arg[1]) : arg[1][i] = 8 /\ arg[1][j] = 25

\* The first field, in table order, whose slice ends beyond n bytes.
FirstMissingField(n) ==
    FieldTable[CHOOSE i \in 1..NFields :
        FieldTable[i].hi > n /\ \A j \in 1..(i - 1) : FieldTable[j].hi <= n]
ShortFrame(buf) == HasStartMarker(buf) /\ ReframedLen(buf) < FrameBytesNeeded

\* C3 as claimed: on a buffer with the marker and fewer than 166 bytes from it on,
\* parsePacket fails with FieldOutOfRange at the first field of the table whose bytes
\* are missing.
C3_FailsAtFirstMissingField ==
    \A p \in Procs :
        (pc[p] = "done" /\ ShortFrame(arg[p])) =>
            outcome[p] = Raised("IndexError", FirstMissingField(ReframedLen(arg[p])).name)

\* How parsePacket ends on a frame of n bytes whose temperature bytes sum to v: the
\* first decoder that indexes its slice or rejects its value.
ShortFrameAbort(buf) ==
    LET n == ReframedLen(buf)
        v == FrameByte(buf, 11) + FrameByte(buf, 12)
    IN  IF n < 13 THEN Raised("IndexError", "Temperature")
        ELSE IF v \notin {1, 2, 3} THEN Raised("ValueError", "Temperature")
        ELSE IF n < 31 THEN Raised("IndexError", "Battery Voltage")
        ELSE Raised("TypeError", "Battery Voltage")

\* C3, amended: on a buffer with the marker and fewer than 166 bytes from it on,
\* parsePacket aborts the whole parse with an exception and returns no record, partial
\* or not.  The exception is that of the first decoder that fails on its slice: at
\* 'Temperature' an IndexError under 13 bytes, else a ValueError when the two bytes do
\* not sum to 1, 2 or 3; otherwise at 'Battery Voltage' an IndexError under 31 bytes,
\* else a TypeError.  It need not be at the first field whose bytes are missing.
C3_ShortFrameAborts ==
    \A p \in Procs :
        /\ (pc[p] = "done" /\ ShortFrame(arg[p])) => outcome[p] = ShortFrameAbort(arg[p])
        /\ (pc[p] # "idle" /\ ShortFrame(arg[p])) => outcome[p].kind # "record"

\* A frame of 100 to 165 bytes with a valid temperature: 'Battery Voltage' ends it,
\* 'CIP Temperature' or a later field being the first whose bytes are missing.
C3_Witness ==
    /\ pc[1] = "done"
    /\ ShortFrame(arg[1])
    /\ ReframedLen(arg[1]) >= 100
    /\ outcome[1] = Raised("TypeError", "Battery Voltage")
    /\ Len(selectedTelemetryDictionary[1]) = 9

\* C4: findSyncStartIndex returns the smallest index i with buffer[i] = 0x08 and
\* buffer[i+1] = 0x19, and -1 when there is none (the empty and the one-byte buffer
\* included); it raises nothing, and the caller's buffer is as it was.
C4_FindStartIsFirstMarker ==
    /\ call.op = "findSyncStartIndex" =>
           /\ call.res.ok
           /\ call.res.val =
                  IntV(IF HasStartMarker(call.arg) THEN FirstMarker(call.arg) ELSE -1)
    /\ \A p \in Procs :
           pc[p] = "fields" =>
               /\ HasStartMarker(arg[p])
               /\ inspirePacket[p] = SubSeq(arg[p], FirstMarker(arg[p]) + 1, Len(arg[p]))

\* The search of the example packet, whose marker is at index 18.
C4_Witness ==
    /\ call.op = "findSyncStartIndex"
    /\ call.arg = exampleData
    /\ call.res.val = IntV(18)

\* C5: for every 4-byte input b, the unsigned decode is
\* b[0] + b[1] * 2^8 + b[2] * 2^16 + b[3] * 2^24: every byte contributes, and the
\* result is in 0 .. 2^32 - 1 (here hi * 2^16 + lo with hi and lo in 0 .. 65535).
C5_Unsigned32AllBytes ==
    (call.op = "decodeBytes" /\ Len(call.arg) = 4 /\ call.flag) =>
        /\ call.res.ok
        /\ call.res.val =
               Val("uint32", call.arg[4] * 256 + call.arg[3],
                   call.arg[2] * 256 + call.arg[1], <<>>)

\* C6: for every 2-byte input [lo, hi], the unsigned decode is lo | (hi << 8), a
\* uint16 in 0 .. 65535, also when hi >= 0x80.
C6_Unsigned16 ==
    (call.op = "decodeBytes" /\ Len(call.arg) = 2 /\ call.flag) =>
        /\ call.res.ok
        /\ call.res.val = Val("uint16", 0, call.arg[1] + 256 * call.arg[2], <<>>)
        /\ call.res.val.lo \in 0..65535

\* An unsigned decode with the top bit of the high byte set.
C6_Witness ==
    /\ call.op = "decodeBytes"
    /\ call.flag
    /\ Len(call.arg) = 2
    /\ call.arg[2] >= 128
    /\ call.res.val.lo >= 32768

\* C7: for every 2-byte input [lo, hi], the signed decode (the default) is the 16-bit
\* two's-complement reading of lo | (hi << 8): negative when hi >= 0x80, and not
\* negative when hi < 0x80.
C7_Signed16 ==
    (call.op = "decodeBytes" /\ Len(call.arg) = 2 /\ ~call.flag) =>
        LET u == call.arg[1] + 256 * call.arg[2]
        IN  /\ call.res.ok
            /\ call.res.val = Val("int16", 0, IF u >= 32768 THEN u - 65536 ELSE u, <<>>)
            /\ call.arg[2] >= 128 <=> call.res.val.lo < 0

\* A signed decode with the top bit of the high byte set.
C7_Witness ==
    /\ call.op = "decodeBytes"
    /\ ~call.flag
    /\ Len(call.arg) = 2
    /\ call.arg[2] >= 128
    /\ call.res.val.lo < 0

\* C8 as claimed: decodeBytes on a byte sequence whose length is not 1, 2 or 4 ends in
\* an error the caller sees.
C8_OtherLengthIsError ==
    (call.op = "decodeBytes" /\ Len(call.arg) \notin {1, 2, 4}) => ~call.res.ok

\* C8, amended: decodeBytes on a byte sequence whose length is not 1, 2 or 4 hands one
\* debug record to the log and returns None: it raises nothing and returns no number.
C8_OtherLengthReturnsNone ==
    (call.op = "decodeBytes" /\ Len(call.arg) \notin {1, 2, 4}) =>
        /\ call.res.ok
        /\ call.res.val = NoneV
        /\ call.res.logs = <<"debug">>
        /\ Len(log) >= 1

\* decodeBytes on the twelve bytes of 'Body Frame Rate'.
C8_Witness ==
    /\ call.op = "decodeBytes"
    /\ Len(call.arg) = 12
    /\ call.res.val = NoneV
    /\ log = <<"debug">>

\* C9: for every 2-byte input whose sum is not 1, 2 or 3 (the resistance is then not
\* positive), TempCalc fails with the domain error of the logarithm and returns no
\* temperature, while the sums 1, 2 and 3 give one; and parsePacket on a packet whose
\* temperature bytes are such aborts the whole parse with that error, returning no record.
C9_DomainError ==
    /\ (call.op = "TempCalc" /\ Len(call.arg) = 2) =>
           IF call.arg[1] + call.arg[2] \in {1, 2, 3}
           THEN call.res.ok /\ call.res.val.t = "float"
           ELSE call.res = Raise("ValueError")
    /\ \A p \in Procs :
           (/\ pc[p] = "done"
            /\ HasStartMarker(arg[p])
            /\ ReframedLen(arg[p]) >= 13
            /\ FrameByte(arg[p], 11) + FrameByte(arg[p], 12) \notin {1, 2, 3}) =>
               outcome[p] = Raised("ValueError", "Temperature")

\* The example packet, whose temperature bytes are 0x02 and 0x0a.
C9_Witness ==
    /\ pc[1] = "done"
    /\ arg[1] = exampleData
    /\ FrameByte(arg[1], 11) + FrameByte(arg[1], 12) = 12
    /\ outcome[1] = Raised("ValueError", "Temperature")

\* C10: an invocation of parsePacket on a buffer ends as every earlier invocation on
\* the same buffer ended (the same record, or the same failure), whatever invocations
\* on other buffers came before or in between.
C10_SameBufferSameOutcome ==
    \A p \in Procs :
        (pc[p] = "done" /\ memo.set /\ arg[p] = memo.arg) => outcome[p] = memo.outcome

\* The remembered buffer parsed again after the log sink has changed: an invocation
\* on another buffer, one without the marker, came in between.
C10_Witness ==
    /\ pc[1] = "done"
    /\ memo.set
    /\ arg[1] = memo.arg
    /\ log # memo.log
    /\ outcome[1].kind = "raise"

\* The bytes of buf at the Python indices lo .. hi - 1 that buf has.
BytesAt(buf, lo, hi) ==
    [i \in 1..(Min(hi, Len(buf)) - lo) |-> buf[lo + i]]
\* b is a from its first start marker on.
IsFrameOf(b, a) ==
    /\ HasStartMarker(a)
    /\ Len(b) = ReframedLen(a)
    /\ \A i \in 1..Len(b) : b[i] = a[FirstMarker(a) + i]
\* Whether a byte of the stop marker 0xA5 0xA5 stands at Python index i of buf.
StopByteAt(buf, i) ==
    \/ (i + 2 <= Len(buf) /\ buf[i + 1] = 165 /\ buf[i + 2] = 165)
    \/ (i >= 1 /\ i + 1 <= Len(buf) /\ buf[i] = 165 /\ buf[i + 1] = 165)
HasStopMarker(buf) == \E i \in 0..(Len(buf) - 1) : StopByteAt(buf, i)
\* a and b are one buffer up to a stop marker: they have the start marker at the
\* same place and differ only in bytes that belong to a stop marker in one of them
\* and are not the two temperature bytes.
SameButStopMarker(a, b) ==
    /\ HasStartMarker(a) /\ HasStartMarker(b)
    /\ Len(a) = Len(b)
    /\ FirstMarker(a) = FirstMarker(b)
    /\ a # b
    /\ \A i \in 0..(Len(a) - 1) :
           a[i + 1] # b[i + 1] =>
               /\ StopByteAt(a, i) \/ StopByteAt(b, i)
               /\ i \notin {FirstMarker(a) + 11, FirstMarker(a) + 12}

AloneOutcome(buf) == IF HasStartMarker(buf) THEN ShortFrameAbort(buf) ELSE FrameNotFound
\* Every finished invocation ended as it ends alone.  (The runs of one invocation
\* while the other one is idle are among those checked.)
EndsAsAlone == \A p \in Procs : pc[p] = "done" => outcome[p] = AloneOutcome(arg[p])
\* The step is one of invocation p: every step moves its invocation's position.
Moved(p) == pc'[p] # pc[p] \/ field'[p] # field[p]
Busy(p) == pc[p] # "idle"
\* A step leaves the buffer, the reframed packet, the record under construction and
\* the outcome of every invocation other than its own as they were.
OwnFrameOnly ==
    \A q \in Procs :
        ~Moved(q) =>
            /\ arg'[q] = arg[q]
            /\ inspirePacket'[q] = inspirePacket[q]
            /\ selectedTelemetryDictionary'[q] = selectedTelemetryDictionary[q]
            /\ outcome'[q] = outcome[q]
\* A step of an invocation, made while another one is in progress, leaves the log sink
\* as it was.
SinkUntouched ==
    \A p \in Procs :
        (Moved(p) /\ \E q \in Procs \ {p} : Busy(q)) => log' = log
\* The log sink is only appended to, and only with the error record of an invocation
\* that finds no start marker.
SinkAppendOnly ==
    log' # log =>
        /\ log' = log \o <<"error">>
        /\ \E p \in Procs : Moved(p) /\ pc[p] = "sync" /\ ~HasStartMarker(arg[p])

\* C12 as claimed: with two parsePacket invocations on different buffers interleaved in
\* any order, each ends as it ends alone, and no step of one writes the other's buffer,
\* the other's record under construction, or any state the two share.
C12_NoSharedStateWritten ==
    []EndsAsAlone /\ [][OwnFrameOnly /\ SinkUntouched]_vars

\* C12, amended: with two parsePacket invocations on different buffers interleaved in
\* any order, each ends as it ends alone, and no step of one writes the other's buffer
\* or the other's record under construction.  The one state the two share, the log sink
\* self.log, is written: an invocation that finds no start marker appends an error
\* record to it, and nothing else is ever done to it.
C12_IndependentButForSink ==
    []EndsAsAlone /\ [][OwnFrameOnly /\ SinkAppendOnly]_vars

\* Two invocations in progress on different buffers, each partway through its fields,
\* with a record in the sink that both of them write.
C12_Witness ==
    /\ pc[1] = "fields" /\ pc[2] = "fields"
    /\ arg[1] # arg[2]
    /\ field[1] = 10 /\ field[2] = 4
    /\ Len(selectedTelemetryDictionary[1]) = 9
    /\ Len(selectedTelemetryDictionary[2]) = 3
    /\ log = <<"error">>

====
